---- MODULE Spec2Model ----
(***************************************************************************)
(* The subsystem tree of tokio-graceful-shutdown (src/src/subsystem.rs):   *)
(* SubsystemData (name, subsystems registry, shutdown token),              *)
(* SubsystemHandle (start, on_shutdown_requested, request_shutdown) and    *)
(* the recursive SubsystemData::perform_shutdown.                          *)
(*                                                                         *)
(* Node 0 is the root SubsystemData held by the top-level driver; nodes    *)
(* 1..nnodes are the subsystems created by SubsystemHandle::start, in the  *)
(* order of their creation.  Every tokio task, the driver and every        *)
(* perform_shutdown future is a process; one action is one atomic step of  *)
(* one of them.                                                            *)
(***************************************************************************)
EXTENDS Integers, Sequences, FiniteSets, TLC

\* Bounds of the model.
MaxNodes == 2        \* subsystems started through start()
MaxCalls == 2        \* perform_shutdown() invocations the driver makes on the root

Root == 0
RootName == ""
LeafNames == {"a"}

VARIABLES
  nnodes,          \* number of SubsystemData created by start()
  name,            \* SubsystemData.name
  parent,          \* the node whose handle started this node
  subsystems,      \* SubsystemData.subsystems : Mutex<Option<Vec<SubsystemDescriptor>>>
  shutdown_token,  \* the one ShutdownToken every node and handle shares
  task,            \* state of the tokio task behind SubsystemDescriptor.joinhandle
  aborted,         \* JoinHandle::abort() has been called on the task
  starting,        \* the child a start() call has spawned and not yet registered
  rerequested,     \* request_shutdown() has been called on a signal that had fired
  calls,           \* perform_shutdown() invocations the driver has made so far
  invoked,         \* perform_shutdown() futures on a node that have not reached line 64
  walk,            \* state of the perform_shutdown() that took the node's registry
  taken,           \* the descriptors that perform_shutdown() took (line 64)
  panicked,        \* perform_shutdown() invocations that ended in the panic of line 68
  report           \* the ShutdownResults returned by perform_shutdown()

treeVars == <<nnodes, name, parent>>
taskVars == <<task, aborted, starting>>
walkVars == <<calls, invoked, walk, taken, panicked, report>>
vars == <<nnodes, name, parent, subsystems, shutdown_token, task, aborted, starting,
          rerequested, calls, invoked, walk, taken, panicked, report>>

Created == 0..nnodes
Started == 1..nnodes

\* Option<Vec<SubsystemDescriptor>>: the descriptors are the child node ids.
SomeVec(v) == [some |-> TRUE, vec |-> v]
None == [some |-> FALSE, vec |-> <<>>]

Range(s) == {s[i] : i \in 1..Len(s)}

\* ---------------------------------------------------------------- ShutdownToken
\* ShutdownToken::shutdown(): fire the one-shot signal if it has not fired yet.
Shutdown(tok) ==
  IF tok.fired THEN tok ELSE [fired |-> TRUE, broadcasts |-> tok.broadcasts + 1]

\* ShutdownToken::wait_for_shutdown() is ready exactly when the signal has fired.
IsShutdown(tok) == tok.fired

\* ---------------------------------------------------------------- SubsystemData
\* A registry that is created already taken.
NewSubsystemsTaken == None

\* SubsystemData::new (line 38).
NewSubsystems == SomeVec(<<>>)

\* The task states a JoinHandle resolves in.
Terminal == {"Ok", "Failed", "Panicked", "Cancelled"}

Init ==
  /\ nnodes = 0
  /\ name = (Root :> RootName)
  /\ parent = (Root :> Root)
  /\ subsystems = (Root :> NewSubsystems)
  /\ shutdown_token = [fired |-> FALSE, broadcasts |-> 0]
  /\ task = (Root :> "driver")
  /\ aborted = (Root :> FALSE)
  /\ starting = (Root :> 0)
  /\ rerequested = FALSE
  /\ calls = 0
  /\ invoked = (Root :> 0)
  /\ walk = (Root :> "none")
  /\ taken = (Root :> <<>>)
  /\ panicked = (Root :> 0)
  /\ report = <<>>

\* The holder of node n's SubsystemHandle is executing: the driver for the root, the
\* body of the subsystem while its task is being polled.
Running(n) == n = Root \/ task[n] = "running"

\* ---------------------------------------------------------------- SubsystemHandle::start
\* A child name that drops the parent's path.
ChildNameLeafOnly(parentName, leaf) == leaf

\* A child name that drops the leaf name below the root's children.
ChildNameParentOnly(parentName, leaf) ==
  IF parentName # "" THEN parentName ELSE leaf

\* Lines 181-187: the child's name.
ChildName(parentName, leaf) ==
  IF parentName # "" THEN parentName \o "/" \o leaf ELSE leaf

\* Lines 181-196: create the SubsystemData and the handle, spawn the task.  The task is
\* queued on the runtime and may be polled by another worker before line 199 runs.
StartSpawn(n, leaf) ==
  /\ Running(n) /\ starting[n] = 0
  /\ nnodes < MaxNodes
  /\ LET c == nnodes + 1 IN
       /\ nnodes' = c
       /\ name' = name @@ (c :> ChildName(name[n], leaf))
       /\ parent' = parent @@ (c :> n)
       /\ subsystems' = subsystems @@ (c :> NewSubsystems)
       /\ task' = task @@ (c :> "spawned")
       /\ aborted' = aborted @@ (c :> FALSE)
       /\ starting' = [starting EXCEPT ![n] = c] @@ (c :> 0)
       /\ invoked' = invoked @@ (c :> 0)
       /\ walk' = walk @@ (c :> "none")
       /\ taken' = taken @@ (c :> <<>>)
       /\ panicked' = panicked @@ (c :> 0)
  /\ UNCHANGED <<shutdown_token, rerequested, calls, report>>

\* A push that stores the descriptor of the child twice.
PushDescriptorTwice(reg, c) == SomeVec(Append(Append(reg.vec, c), c))

\* A push that loses the descriptor.
PushDescriptorDropped(reg, c) == reg

\* Lines 49-54: the Some branch of add_subsystem pushes the descriptor.
PushDescriptor(reg, c) == SomeVec(Append(reg.vec, c))

\* Line 57: joinhandle.abort().  A task that is not being polled is cancelled without
\* running again; a task in the middle of a poll runs on to its next suspension point
\* or to its return; a finished task keeps its result.
AbortTask(st) == IF st \in {"spawned", "waiting"} THEN "Cancelled" ELSE st

\* A registration that does not look at the taken registry.
AcceptsChildAlways(reg) == TRUE

\* Line 48: the branch add_subsystem takes on the locked registry.
AcceptsChild(reg) == reg.some

\* A registration that calls abort() on the join handle in both branches.
AddSubsystemAbortsAlways(n) ==
  /\ Running(n) /\ starting[n] # 0
  /\ LET c == starting[n] IN
       /\ subsystems' = [subsystems EXCEPT
                           ![n] = IF AcceptsChild(@) THEN PushDescriptor(@, c) ELSE @]
       /\ aborted' = [aborted EXCEPT ![c] = TRUE]
       /\ task' = [task EXCEPT ![c] = AbortTask(@)]
  /\ starting' = [starting EXCEPT ![n] = 0]
  /\ UNCHANGED <<treeVars, shutdown_token, rerequested, walkVars>>

\* Lines 43-60 (called at line 199): register the child, or abort it when the registry
\* has been taken.
AddSubsystem(n) ==
  /\ Running(n) /\ starting[n] # 0
  /\ LET c == starting[n] IN
       IF AcceptsChild(subsystems[n])
       THEN /\ subsystems' = [subsystems EXCEPT ![n] = PushDescriptor(@, c)]
            /\ UNCHANGED <<task, aborted>>
       ELSE /\ aborted' = [aborted EXCEPT ![c] = TRUE]
            /\ task' = [task EXCEPT ![c] = AbortTask(@)]
            /\ UNCHANGED subsystems
  /\ starting' = [starting EXCEPT ![n] = 0]
  /\ UNCHANGED <<treeVars, shutdown_token, rerequested, walkVars>>

\* ---------------------------------------------------------------- the subsystem task
\* tokio::spawn (line 196): a worker polls the queued task for the first time.
TaskBegin(n) ==
  /\ n \in Started /\ task[n] = "spawned"
  /\ task' = [task EXCEPT ![n] = "running"]
  /\ UNCHANGED <<treeVars, subsystems, shutdown_token, aborted, starting, rerequested,
                 walkVars>>

\* A request that fires the signal again although it has fired.
RequestShutdownRefires(tok) == [fired |-> TRUE, broadcasts |-> tok.broadcasts + 1]

\* Lines 286-288: request_shutdown() is shutdown() on the shared token.
RequestShutdownToken(tok) == Shutdown(tok)

RequestShutdown(n) ==
  /\ Running(n) /\ starting[n] = 0
  /\ shutdown_token' = RequestShutdownToken(shutdown_token)
  /\ rerequested' = (rerequested \/ IsShutdown(shutdown_token))
  /\ UNCHANGED <<treeVars, subsystems, taskVars, walkVars>>

\* A wait that suspends without looking at the signal.
AwaitShutdownUnchecked(tok, st, ab) == IF ab THEN "Cancelled" ELSE "waiting"

\* Lines 252-254: on_shutdown_requested() awaits wait_for_shutdown().  With the signal
\* fired it resolves at once and the body runs on; otherwise the task suspends, and a
\* task whose abort has been requested is dropped at that suspension point.
AwaitShutdown(tok, st, ab) ==
  IF IsShutdown(tok) THEN st ELSE IF ab THEN "Cancelled" ELSE "waiting"

OnShutdownRequested(n) ==
  /\ n \in Started /\ task[n] = "running" /\ starting[n] = 0
  /\ task' = [task EXCEPT ![n] = AwaitShutdown(shutdown_token, @, aborted[n])]
  /\ UNCHANGED <<treeVars, subsystems, shutdown_token, aborted, starting, rerequested,
                 walkVars>>

\* Lines 252-254: a suspended on_shutdown_requested() resolves once the signal fired.
WaitResolves(n) ==
  /\ n \in Started /\ task[n] = "waiting"
  /\ IsShutdown(shutdown_token)
  /\ task' = [task EXCEPT ![n] = "running"]
  /\ UNCHANGED <<treeVars, subsystems, shutdown_token, aborted, starting, rerequested,
                 walkVars>>

\* A launcher that initiates the shutdown on every return of the body.
RunSubsystemTokenAnyReturn(tok, r) == Shutdown(tok)

\* Lines 349-355: the contract of AsyncSubsystem::run that run_subsystem (line 196)
\* implements: Ok(()) takes no further action, Err initiates a system shutdown.
RunSubsystemToken(tok, r) == IF r = "Failed" THEN Shutdown(tok) ELSE tok

\* The body returns Ok(()) (r = "Ok") or Err (r = "Failed"); the task's JoinHandle
\* resolves to Ok(Ok(())) or Ok(Err(())).
BodyReturn(n, r) ==
  /\ n \in Started /\ task[n] = "running" /\ starting[n] = 0
  /\ task' = [task EXCEPT ![n] = r]
  /\ shutdown_token' = RunSubsystemToken(shutdown_token, r)
  /\ UNCHANGED <<treeVars, subsystems, aborted, starting, rerequested, walkVars>>

\* The body panics: the JoinHandle resolves to Err(JoinError) (line 100).
BodyPanic(n) ==
  /\ n \in Started /\ task[n] = "running" /\ starting[n] = 0
  /\ task' = [task EXCEPT ![n] = "Panicked"]
  /\ UNCHANGED <<treeVars, subsystems, shutdown_token, aborted, starting, rerequested,
                 walkVars>>

\* Line 57: a task aborted in the middle of a poll is dropped when its body next
\* suspends; its JoinHandle resolves to Err(JoinError) (cancelled).
TaskCancelled(n) ==
  /\ n \in Started /\ task[n] = "running" /\ starting[n] = 0
  /\ aborted[n]
  /\ task' = [task EXCEPT ![n] = "Cancelled"]
  /\ UNCHANGED <<treeVars, subsystems, shutdown_token, aborted, starting, rerequested,
                 walkVars>>

\* ---------------------------------------------------------------- perform_shutdown
\* The top-level driver calls perform_shutdown() on the root.
DriverInvoke ==
  /\ calls < MaxCalls
  /\ calls' = calls + 1
  /\ invoked' = [invoked EXCEPT ![Root] = @ + 1]
  /\ UNCHANGED <<treeVars, subsystems, shutdown_token, taskVars, rerequested,
                 walk, taken, panicked, report>>

\* A take of the Vec inside the Option, which leaves Some(empty) behind.
TakeVecOnly(reg) == SomeVec(<<>>)

\* Line 64: Option::take() leaves None in the registry.
TakeRegistry(reg) == None

\* A recursion that is started only for the children whose task has finished.
ShutdownFuturesFinishedOnly(vec, m) ==
  IF task[m] \in Terminal THEN Cardinality({i \in 1..Len(vec) : vec[i] = m}) ELSE 0

\* Lines 85-89: the perform_shutdown() futures created on child node m, one for every
\* descriptor of the taken Vec that holds m, whatever the state of any task.
ShutdownFutures(vec, m) == Cardinality({i \in 1..Len(vec) : vec[i] = m})

\* Lines 64-89: take the registry, or panic when it has been taken (line 68).  The taken
\* descriptors are split into the join handles and the child nodes, and a
\* perform_shutdown() future is created for every child node (lines 85-89).
PerformShutdownTake(n) ==
  /\ invoked[n] > 0
  /\ IF subsystems[n].some
     THEN /\ taken' = [taken EXCEPT ![n] = subsystems[n].vec]
          /\ subsystems' = [subsystems EXCEPT ![n] = TakeRegistry(@)]
          /\ walk' = [walk EXCEPT ![n] = "joining"]
          /\ invoked' = [m \in DOMAIN invoked |->
                           IF m = n THEN invoked[m] - 1
                           ELSE invoked[m] + ShutdownFutures(subsystems[n].vec, m)]
          /\ UNCHANGED panicked
     ELSE /\ panicked' = [panicked EXCEPT ![n] = @ + 1]
          /\ invoked' = [invoked EXCEPT ![n] = @ - 1]
          /\ UNCHANGED <<taken, subsystems, walk>>
  /\ UNCHANGED <<treeVars, shutdown_token, taskVars, rerequested, calls, report>>

\* A classification that reports a failed body as a normal completion.
ExitStatusConfused(st) ==
  CASE st \in {"Ok", "Failed"} -> "OK"
    [] st = "Panicked" -> "Internal error: " \o "panic"
    [] st = "Cancelled" -> "Internal error: " \o "cancelled"

\* Lines 97-101: the status string of a joined result.
ExitStatus(st) ==
  CASE st = "Ok" -> "OK"
    [] st = "Failed" -> "Failed"
    [] st = "Panicked" -> "Internal error: " \o "panic"
    [] st = "Cancelled" -> "Internal error: " \o "cancelled"

\* A classification that looks at the outer Result of the join only.
JoinedOkOuterOnly(st) == st \in {"Ok", "Failed"}

\* Lines 97-101 and 115-118: only Ok(Ok(())) is collected as Ok.
JoinedOk(st) == st = "Ok"

\* Direct results whose exit states stop at the first failure, as the collect of line
\* 115 does.
ResultsDirectShortCircuit(n) ==
  LET firstBad == {i \in 1..Len(taken[n]) : ~(task[taken[n][i]] = "Ok")}
      upto == IF firstBad = {} THEN Len(taken[n])
              ELSE (CHOOSE i \in firstBad : \A j \in firstBad : i <= j) - 1
  IN [ok |-> firstBad = {},
      entries |-> [i \in 1..upto |->
                     [name |-> name[taken[n][i]], status |-> "OK"]]]

\* Lines 91-119: the direct results, one SubprocessExitState per taken join handle.
ResultsDirect(n) ==
  [ok |-> \A i \in 1..Len(taken[n]) : JoinedOk(task[taken[n][i]]),
   entries |-> [i \in 1..Len(taken[n]) |->
                  [name |-> name[taken[n][i]], status |-> ExitStatus(task[taken[n][i]])]]]

\* exit_state::join_shutdown_results (line 124): Ok iff the direct results and every
\* recursive result are Ok; the entries are the direct ones followed by the recursive.
JoinShutdownResults(left, right) ==
  LET RECURSIVE Flat(_)
      Flat(i) == IF i > Len(right) THEN <<>> ELSE right[i].entries \o Flat(i + 1)
  IN [ok |-> left.ok /\ \A i \in 1..Len(right) : right[i].ok,
      entries |-> left.entries \o Flat(1)]

\* A join that also waits for the children the node rejected.
JoinsResolvedEveryChild(n) ==
  \A c \in Started : parent[c] = n => task[c] \in Terminal /\ walk[c] = "done"

\* Lines 80-122: the join of the direct track and the recursive track resolves when
\* every join handle has resolved and every child's perform_shutdown() has returned.
JoinsResolved(n) ==
  \A c \in Range(taken[n]) : task[c] \in Terminal /\ walk[c] = "done"

\* A walk that returns an empty report without awaiting the join of its two tracks.
PerformShutdownReturnUnjoined(n) ==
  /\ walk[n] = "joining"
  /\ report' = report @@ (n :> [ok |-> TRUE, entries |-> <<>>])
  /\ walk' = [walk EXCEPT ![n] = "done"]
  /\ UNCHANGED <<treeVars, subsystems, shutdown_token, taskVars, rerequested,
                 calls, invoked, taken, panicked>>

\* Lines 91-124: merge the two tracks and return.
PerformShutdownReturn(n) ==
  /\ walk[n] = "joining"
  /\ JoinsResolved(n)
  /\ report' = report @@
       (n :> JoinShutdownResults(ResultsDirect(n),
                                 [i \in 1..Len(taken[n]) |-> report[taken[n][i]]]))
  /\ walk' = [walk EXCEPT ![n] = "done"]
  /\ UNCHANGED <<treeVars, subsystems, shutdown_token, taskVars, rerequested,
                 calls, invoked, taken, panicked>>

Next ==
  \/ \E n \in Created, leaf \in LeafNames : StartSpawn(n, leaf)
  \/ \E n \in Created : AddSubsystem(n)
  \/ \E n \in Created : TaskBegin(n)
  \/ \E n \in Created : RequestShutdown(n)
  \/ \E n \in Created : OnShutdownRequested(n)
  \/ \E n \in Created : WaitResolves(n)
  \/ \E n \in Created, r \in {"Ok", "Failed"} : BodyReturn(n, r)
  \/ \E n \in Created : BodyPanic(n)
  \/ \E n \in Created : TaskCancelled(n)
  \/ DriverInvoke
  \/ \E n \in Created : PerformShutdownTake(n)
  \/ \E n \in Created : PerformShutdownReturn(n)

Spec == Init /\ [][Next]_vars

\* ---------------------------------------------------------------- scenario
\* The scenario of spec section 8: the root starts A ("a"); A starts B ("b") and then
\* returns Ok(()) without requesting the shutdown; B awaits on_shutdown_requested()
\* and then returns Ok(()); the root calls request_shutdown() and then
\* perform_shutdown().  Node 1 is A and node 2 is B.
ScenarioNext ==
  \/ nnodes = 0 /\ StartSpawn(Root, "a")
  \/ AddSubsystem(Root)
  \/ nnodes >= 1 /\ ~IsShutdown(shutdown_token) /\ RequestShutdown(Root)
  \/ IsShutdown(shutdown_token) /\ calls = 0 /\ DriverInvoke
  \/ \E n \in Created : TaskBegin(n)
  \/ nnodes = 1 /\ StartSpawn(1, "b")
  \/ nnodes = 2 /\ AddSubsystem(1)
  \/ nnodes = 2 /\ BodyReturn(1, "Ok")
  \/ nnodes = 2 /\ OnShutdownRequested(2)
  \/ nnodes = 2 /\ WaitResolves(2)
  \/ nnodes = 2 /\ IsShutdown(shutdown_token) /\ BodyReturn(2, "Ok")
  \/ \E n \in Created : PerformShutdownTake(n)
  \/ \E n \in Created : PerformShutdownReturn(n)

ScenarioSpec == Init /\ [][ScenarioNext]_vars

\* ---------------------------------------------------------------- names
\* The leaf names start() is called with when the names of the nodes are examined;
\* start() takes any &'static str and a caller may pass the same one twice.
NameLeaves == {"a", "b"}

\* Lines 176-202 and 62-125: start() calls with the leaf names of NameLeaves by the
\* driver and by running bodies, bodies that return Ok(()), and the shutdown walk.
NamesNext ==
  \/ \E n \in Created, leaf \in NameLeaves : StartSpawn(n, leaf)
  \/ \E n \in Created : AddSubsystem(n)
  \/ \E n \in Created : TaskBegin(n)
  \/ \E n \in Created : BodyReturn(n, "Ok")
  \/ DriverInvoke
  \/ \E n \in Created : PerformShutdownTake(n)
  \/ \E n \in Created : PerformShutdownReturn(n)

NamesSpec == Init /\ [][NamesNext]_vars

\* Line 178: the leaf name the start() call that created node n was given.
Leaf(n) == CHOOSE l \in NameLeaves : name[n] = ChildName(name[parent[n]], l)

\* ---------------------------------------------------------------- fairness
\* The steps of the holder of node n's handle that the runtime carries on with: the
\* synchronous rest of start() (line 199), the first poll of a queued task, the poll of
\* a task whose wait has been woken.  The last disjunct is the hypothesis that a
\* subsystem body returns once the signal has fired.
TaskStep(n) ==
  /\ n \in Created
  /\ \/ AddSubsystem(n)
     \/ TaskBegin(n)
     \/ WaitResolves(n)
     \/ /\ IsShutdown(shutdown_token)
        /\ (BodyReturn(n, "Ok") \/ BodyReturn(n, "Failed") \/ BodyPanic(n))

\* The polls of the perform_shutdown() futures on node n.
WalkStep(n) ==
  /\ n \in Created
  /\ (PerformShutdownTake(n) \/ PerformShutdownReturn(n))

\* The tokio runtime polls every task that is ready.
Fairness ==
  \A n \in 0..MaxNodes : WF_vars(TaskStep(n)) /\ WF_vars(WalkStep(n))

LiveSpec == Spec /\ Fairness

\* ---------------------------------------------------------------- derived notions
\* The child's descriptor was pushed into its parent's registry (lines 50-53): it is in
\* the registry, or among the descriptors the parent's perform_shutdown() took.
Registered(n) ==
  n \in Started /\ n \in Range(subsystems[parent[n]].vec) \cup Range(taken[parent[n]])

\* The child's add_subsystem() took the None branch (lines 55-58).
Rejected(n) == n \in Started /\ aborted[n]

\* The node and every ancestor of it up to the root were registered.
RECURSIVE Attached(_)
Attached(n) ==
  Registered(n) /\ (parent[n] = Root \/ Attached(parent[n]))

\* The nodes whose join handles were taken by perform_shutdown() on n or below it.
RECURSIVE TakenBelow(_)
TakenBelow(n) ==
  Range(taken[n]) \cup UNION {TakenBelow(c) : c \in Range(taken[n])}

\* How often an exit state occurs in a report, and how often among a set of nodes.
CountInReport(r, e) == Cardinality({i \in 1..Len(r.entries) : r.entries[i] = e})
ExitStateOf(n) == [name |-> name[n], status |-> ExitStatus(task[n])]
CountAmong(S, e) == Cardinality({n \in S : ExitStateOf(n) = e})

\* The report lists exactly the exit states of the nodes in S, each once per node.
ReportLists(r, S) ==
  /\ Len(r.entries) = Cardinality(S)
  /\ \A n \in S : CountInReport(r, ExitStateOf(n)) = CountAmong(S, ExitStateOf(n))

RootReturned == walk[Root] = "done"

\* ---------------------------------------------------------------- claims
\* C1 (as stated): when perform_shutdown() on the root returns, its report has as many
\* entries as subsystems have been started through start().
C1_EveryStartedReported ==
  [][(~RootReturned /\ RootReturned') => Len(report'[Root].entries) = nnodes']_vars

\* C1 (amended): the report of the root has as many entries as there are subsystems
\* that were registered at every level up to the root; a subsystem that add_subsystem()
\* rejected, or that was started below a rejected one, has no entry.
C1_EveryAttachedReported ==
  RootReturned =>
    Len(report[Root].entries) = Cardinality({n \in Started : Attached(n)})

C1_Witness ==
  /\ RootReturned
  /\ Len(report[Root].entries) = 2
  /\ \E n \in Started : parent[n] # Root /\ Attached(n)
  /\ ~report[Root].ok

\* C2: a child started on a node whose registry has been taken is aborted before its
\* body does any observable work: it has not returned or panicked and has started no
\* child of its own; it is in no report, start() has returned, and no walk panicked.
C2_RejectedChildDidNothing ==
  \A c \in Started :
    Rejected(c) =>
      /\ task[c] \notin {"Ok", "Failed", "Panicked"}
      /\ ~\E m \in Started : parent[m] = c
      /\ ~Registered(c)
      /\ starting[parent[c]] # c
      /\ (calls <= 1 => \A n \in Created : panicked[n] = 0)

C2_Witness ==
  \E c \in Started :
    /\ Rejected(c) /\ task[c] = "Ok"
    /\ RootReturned /\ report[Root].entries = <<>>

\* C3: the verdict of the report perform_shutdown() returned on a node is pass iff
\* every task joined on that node or below it finished with Ok(Ok(())).
C3_VerdictIffAllOk ==
  \A n \in DOMAIN report :
    report[n].ok <=> \A c \in TakenBelow(n) : task[c] = "Ok"

C3_Witness ==
  /\ RootReturned /\ ~report[Root].ok
  /\ \A c \in Range(taken[Root]) : task[c] = "Ok"
  /\ \E c \in TakenBelow(Root) : task[c] = "Panicked"

\* C4: when exactly one registered subsystem failed and all the others returned Ok,
\* the walk has joined every task and drained every subtree, the verdict is fail, and
\* the report lists every one of them, the failing one "Failed" and the rest "OK".
C4_OneFailureAllReported ==
  (RootReturned /\ \E f \in TakenBelow(Root) :
        /\ task[f] = "Failed"
        /\ \A o \in TakenBelow(Root) \ {f} : task[o] = "Ok")
  => /\ ~report[Root].ok
     /\ \A d \in TakenBelow(Root) : task[d] \in Terminal /\ walk[d] = "done"
     /\ {d \in Started : Attached(d)} = TakenBelow(Root)
     /\ ReportLists(report[Root], TakenBelow(Root))
     /\ \A i \in 1..Len(report[Root].entries) :
          report[Root].entries[i].status \in {"OK", "Failed"}
     /\ Cardinality({i \in 1..Len(report[Root].entries) :
                       report[Root].entries[i].status = "Failed"}) = 1

C4_Witness ==
  /\ RootReturned
  /\ \E f, o \in Range(taken[Root]) :
       /\ f < o /\ task[f] = "Failed" /\ task[o] = "Ok"
       /\ report[Root] = [ok |-> FALSE,
                          entries |-> <<[name |-> name[f], status |-> "Failed"],
                                        [name |-> name[o], status |-> "OK"]>>]

\* C5: an invocation of perform_shutdown() that finds the registry taken returns no
\* report and panics: of the invocations on a node that have run line 64, exactly one
\* took the registry and every other one panicked.
C5_SecondInvocationPanics ==
  /\ calls - invoked[Root] = (IF walk[Root] = "none" THEN 0 ELSE 1) + panicked[Root]
  /\ \A n \in Created :
       /\ panicked[n] > 0 => ~subsystems[n].some /\ walk[n] # "none"
       /\ walk[n] # "none" => ~subsystems[n].some

C5_Witness ==
  /\ calls = 2 /\ panicked[Root] = 1
  /\ RootReturned /\ Len(report[Root].entries) = 1

C7_ReportListsAAndB ==
  RootReturned =>
    report[Root] = [ok |-> TRUE,
                    entries |-> <<[name |-> "a", status |-> "OK"],
                                  [name |-> "a/b", status |-> "OK"]>>]

\* C7 (amended): in the scenario the report of the root is pass and lists A "OK"; it
\* lists B "OK" as well exactly when A's start() registered B before the walk took
\* A's registry, and A alone when B was rejected.
C7_ReportListsAAndRegisteredB ==
  RootReturned =>
    /\ report[Root].ok
    /\ report[Root].entries =
         <<[name |-> "a", status |-> "OK"]>> \o
         (IF Rejected(2) THEN <<>> ELSE <<[name |-> "a/b", status |-> "OK"]>>)
    /\ ~Rejected(2) => Registered(2) /\ task[2] = "Ok"

C7_Witness ==
  /\ RootReturned /\ Len(report[Root].entries) = 2
  /\ task[1] = "Ok" /\ task[2] = "Ok"

\* C8 (as stated): every step that changes the shutdown signal is a request_shutdown()
\* call.
C8_OnlyRequestShutdownFires ==
  [][shutdown_token' # shutdown_token => \E n \in Created : RequestShutdown(n)]_vars

\* C8 (amended): every step that changes the shutdown signal is a request_shutdown()
\* call or the return of Err by a subsystem body; a body returning Ok(()), start(),
\* add_subsystem() and perform_shutdown() leave the signal unchanged.
C8_OnlyRequestOrFailureFires ==
  [][shutdown_token' # shutdown_token =>
       \/ \E n \in Created : RequestShutdown(n)
       \/ \E n \in Started : task[n] = "running" /\ task'[n] = "Failed"]_vars

C8_Witness ==
  /\ ~IsShutdown(shutdown_token)
  /\ RootReturned
  /\ \E n \in Started : task[n] = "Ok" /\ Registered(n)
  /\ \E n \in Started : Rejected(n)

\* C9: after any number of request_shutdown() calls the signal is in the state one
\* call leaves it in, it has been broadcast once, a fired signal never changes, and a
\* task that is not suspended when the signal has fired is never suspended again, so
\* no waiter is released twice.
C9_RequestShutdownIdempotent ==
  /\ [](IsShutdown(shutdown_token) => shutdown_token = [fired |-> TRUE, broadcasts |-> 1])
  /\ [][IsShutdown(shutdown_token) =>
          /\ shutdown_token' = shutdown_token
          /\ \A n \in Started : task[n] # "waiting" => task'[n] # "waiting"]_vars

C9_Witness ==
  /\ rerequested
  /\ \E n \in Started : task[n] = "waiting"

\* C10: once the signal has fired and the driver has invoked perform_shutdown() on the
\* root (once), the invocation returns its report.
C10_ShutdownReturns ==
  (IsShutdown(shutdown_token) /\ calls = 1) ~> (RootReturned \/ calls > 1)

C10_Witness ==
  /\ IsShutdown(shutdown_token) /\ calls = 1 /\ RootReturned
  /\ nnodes = 2 /\ Attached(2) /\ \E c \in Started : Rejected(c) \/ parent[2] = 1

\* C11: the registry of every node starts as Some(empty); it goes from Some to None only
\* in the step of perform_shutdown() that takes it (line 64), which hands over exactly
\* the descriptors it held; a registry that is None stays None and holds nothing,
\* whatever add_subsystem() is called with.
C11_RegistryTakenOnce ==
  /\ subsystems[Root] = SomeVec(<<>>)
  /\ [][/\ \A n \in (DOMAIN subsystems') \ DOMAIN subsystems :
             subsystems'[n] = SomeVec(<<>>)
        /\ \A n \in Created :
             /\ (subsystems[n].some /\ ~subsystems'[n].some) =>
                  /\ invoked[n] > 0 /\ invoked'[n] = invoked[n] - 1
                  /\ walk[n] = "none" /\ walk'[n] = "joining"
                  /\ taken'[n] = subsystems[n].vec
             /\ ~subsystems[n].some =>
                  /\ subsystems[n].vec = <<>>
                  /\ subsystems'[n] = subsystems[n]]_vars

C11_Witness ==
  \E n \in Started :
    /\ ~subsystems[n].some /\ starting[n] = 0
    /\ \E c \in Started : parent[c] = n /\ Rejected(c) /\ ~Registered(c)

\* C12: the push of add_subsystem() and the take of perform_shutdown() on one node are
\* atomic with respect to each other.  A child whose start() has returned has exactly
\* one of two outcomes: its descriptor was pushed, once, before the take, it is among
\* the descriptors the walk took, and when that walk has returned its task has been
\* joined, its own walk has returned and the report holds its entry once; or it was
\* rejected and its abort requested.  Never both, never neither.
C12_RegisteredXorRejected ==
  \A c \in Started :
    LET p == parent[c]
        held == ShutdownFutures(subsystems[p].vec, c) + ShutdownFutures(taken[p], c)
    IN /\ starting[p] = c => held = 0 /\ ~aborted[c]
       /\ starting[p] # c => (Registered(c) <=> ~Rejected(c))
       /\ Registered(c) => held = 1
       /\ Rejected(c) => held = 0
       /\ (Registered(c) /\ walk[p] # "none") => c \in Range(taken[p])
       /\ (Registered(c) /\ walk[p] = "done") =>
            /\ task[c] \in Terminal /\ walk[c] = "done"
            /\ Len(report[p].entries) = Cardinality(TakenBelow(p))
            /\ \A i \in 1..Len(taken[p]) :
                 taken[p][i] = c => report[p].entries[i] = ExitStateOf(c)

C12_Witness ==
  \E c, d \in Started :
    /\ parent[c] = parent[d] /\ c < d
    /\ Registered(c) /\ Rejected(d)
    /\ walk[parent[c]] = "done" /\ Len(report[parent[c]].entries) = 1
    /\ task[d] = "Cancelled"

\* C13: once perform_shutdown() on the root has returned and no start() call is in
\* progress, every task that start() spawned is among the join handles some node's
\* walk took, or abort() has been called on it.
C13_NoTaskLeaked ==
  (RootReturned /\ \A m \in Created : starting[m] = 0) =>
    \A n \in Started :
      aborted[n] \/ \E p \in Created : n \in Range(taken[p])

\* The leak: the body of a rejected child ran before the rejection and registered a
\* child of its own in a registry that no perform_shutdown() is ever invoked on.
C13_Witness ==
  /\ RootReturned
  /\ \E c, d \in Started :
       /\ Rejected(c) /\ task[c] = "Cancelled"
       /\ subsystems[c].some /\ invoked[c] = 0 /\ walk[c] = "none"
       /\ parent[d] = c /\ Registered(d)
       /\ ~aborted[d] /\ task[d] = "waiting"

\* C14: perform_shutdown() on a node returns only in a step before which every join
\* handle it took had resolved and the perform_shutdown() of every child node it took
\* had returned; so when the root's report exists, every subsystem registered at
\* every level up to the root has been taken by a walk, its task has finished and its
\* own walk has returned.
C14_ReturnsAfterJoins ==
  /\ [][\A n \in Created :
          (walk[n] = "joining" /\ walk'[n] = "done") =>
            \A c \in Range(taken[n]) : task[c] \in Terminal /\ walk[c] = "done"]_vars
  /\ [](\A n \in Created :
          walk[n] = "done" =>
            \A c \in TakenBelow(n) : task[c] \in Terminal /\ walk[c] = "done")
  /\ [](RootReturned =>
          \A n \in Started :
            Attached(n) => n \in TakenBelow(Root) /\ task[n] \in Terminal)

C14_Witness ==
  /\ RootReturned
  /\ nnodes = 2 /\ parent[2] = 1 /\ 2 \in TakenBelow(Root)
  /\ task[1] = "Ok" /\ task[2] = "Failed"
  /\ Len(report[Root].entries) = 2

\* C15: once perform_shutdown() on a node has taken its registry, perform_shutdown()
\* has been started on every child node it took, whatever the state of any task; and
\* every started one goes on to take its registry, so the registries of the whole
\* taken subtree are taken even in the runs where no task ever finishes.
C15_RecursionWaitsForNoTask ==
  /\ [](\A n \in Created :
          walk[n] # "none" =>
            \A c \in Range(taken[n]) : invoked[c] > 0 \/ walk[c] # "none")
  /\ (walk[Root] = "joining") ~> (\A c \in TakenBelow(Root) : walk[c] # "none")

C15_Witness ==
  /\ ~IsShutdown(shutdown_token)
  /\ walk[Root] = "joining" /\ taken[Root] = <<1, 2>>
  /\ task[1] = "waiting" /\ task[2] = "running"
  /\ walk[1] = "done" /\ walk[2] = "done"

\* C16: abort() is called on a join handle only by the add_subsystem() that finds the
\* registry None; a registered subsystem is never aborted and its task is never
\* cancelled; every task a walk took ends as Ok(Ok(())), Ok(Err(())) or a panic.
C16_RegisteredNeverAborted ==
  /\ [][\A c \in Started :
          (~aborted[c] /\ aborted'[c]) =>
            /\ starting[parent[c]] = c /\ starting'[parent[c]] = 0
            /\ ~subsystems[parent[c]].some]_vars
  /\ [](\A c \in Started :
          /\ task[c] = "Cancelled" => aborted[c]
          /\ (aborted[c] \/ task[c] = "Cancelled") =>
               ~Registered(c) /\ \A p \in Created : c \notin Range(taken[p])
          /\ (Registered(c) /\ task[c] \in Terminal) =>
               task[c] \in {"Ok", "Failed", "Panicked"})

C16_Witness ==
  /\ RootReturned
  /\ \E c, d \in Started :
       /\ c \in Range(taken[Root]) /\ task[c] = "Panicked"
       /\ Rejected(d) /\ task[d] = "Cancelled" /\ parent[d] = c

\* C17: the status string is "OK" exactly for a task that returned Ok(()), "Failed"
\* exactly for one whose body returned Err, and an "Internal error: ..." string exactly
\* for one that panicked or was cancelled; and the direct results of a walk that has
\* returned hold one entry per descriptor it took, in the order of the descriptors,
\* with the name of that child node and the status of its task, and these entries
\* head the report the walk returned.
C17_OneEntryPerDescriptor ==
  /\ \A st \in Terminal :
       /\ ExitStatus(st) = "OK" <=> st = "Ok"
       /\ ExitStatus(st) = "Failed" <=> st = "Failed"
       /\ ExitStatus(st) \in {"Internal error: panic", "Internal error: cancelled"}
            <=> st \in {"Panicked", "Cancelled"}
  /\ \A n \in Created :
       walk[n] = "done" =>
         LET direct == ResultsDirect(n).entries IN
           /\ Len(direct) = Len(taken[n])
           /\ Len(report[n].entries) >= Len(direct)
           /\ \A i \in 1..Len(taken[n]) :
                LET c == taken[n][i] IN
                  /\ direct[i].name = name[c]
                  /\ direct[i].status = "OK" <=> task[c] = "Ok"
                  /\ direct[i].status = "Failed" <=> task[c] = "Failed"
                  /\ direct[i].status = "Internal error: panic" <=> task[c] = "Panicked"
                  /\ report[n].entries[i] = direct[i]

C17_Witness ==
  /\ RootReturned /\ taken[Root] = <<1, 2>>
  /\ task[1] = "Panicked" /\ task[2] = "Failed"
  /\ report[Root].entries = <<[name |-> name[1], status |-> "Internal error: panic"],
                              [name |-> name[2], status |-> "Failed"]>>

\* C18 (as stated): no two nodes carry the same name, and no two entries of a report
\* share a name.
C18_NamesUnique ==
  /\ \A m, n \in Created : m # n => name[m] # name[n]
  /\ \A n \in DOMAIN report :
       \A i, j \in 1..Len(report[n].entries) :
         i # j => report[n].entries[i].name # report[n].entries[j].name

\* C18 (amended): start() does not look at the names already given.  Two nodes carry
\* the same name exactly when they were started with the same leaf name by parents of
\* the same name; while no node has started two children with the same leaf name, all
\* names are distinct and no two entries of a report share a name.
C18_NamesUniqueForDistinctLeaves ==
  /\ \A n \in Started : name[n] = ChildName(name[parent[n]], Leaf(n)) /\ name[n] # RootName
  /\ \A m, n \in Started :
       name[m] = name[n] <=> (name[parent[m]] = name[parent[n]] /\ Leaf(m) = Leaf(n))
  /\ (\A m, n \in Started : (m # n /\ parent[m] = parent[n]) => Leaf(m) # Leaf(n)) =>
       /\ \A m, n \in Created : m # n => name[m] # name[n]
       /\ \A n \in DOMAIN report :
            \A i, j \in 1..Len(report[n].entries) :
              i # j => report[n].entries[i].name # report[n].entries[j].name

C18_Witness ==
  /\ RootReturned
  /\ \E i, j \in 1..Len(report[Root].entries) :
       /\ report[Root].entries[i].name = "a"
       /\ report[Root].entries[j].name = "b"
  /\ parent[1] = Root /\ parent[2] = Root

\* C19: while the driver has invoked perform_shutdown() on the root at most once,
\* perform_shutdown() has been invoked at most once on every node and none has
\* panicked; a node's descriptor is held at most once, and only by the registry of
\* the node that started it or by the walk that took that registry.
C19_InvokedAtMostOnce ==
  /\ \A n \in Started :
       /\ \A p \in Created \ {parent[n]} :
            n \notin Range(subsystems[p].vec) \cup Range(taken[p])
       /\ ShutdownFutures(subsystems[parent[n]].vec, n)
            + ShutdownFutures(taken[parent[n]], n) <= 1
  /\ calls <= 1 =>
       \A n \in Created :
         /\ panicked[n] = 0
         /\ invoked[n] + (IF walk[n] = "none" THEN 0 ELSE 1) <= 1
         /\ (n \in Started /\ invoked[n] + (IF walk[n] = "none" THEN 0 ELSE 1) = 1)
              => n \in Range(taken[parent[n]])

C19_Witness ==
  /\ calls = 1 /\ RootReturned
  /\ nnodes = 2 /\ parent[2] = 1
  /\ walk[1] = "done" /\ walk[2] = "done"
  /\ task[1] = "Panicked" /\ task[2] = "Ok"
====
